---------------------------- MODULE Spec2Model ----------------------------
(***************************************************************************)
(* A model of cardbleed (src/cardbleed.py): mirroring an image across an   *)
(* edge, the 3x3 "frill", the bleed crop in pixels and in physical units,  *)
(* the stripping of edge pixels, and the generator of output filenames    *)
(* with main's loop over the pages.                                        *)
(*                                                                         *)
(* An image is a record [w, h, px] with px a function from the positions   *)
(* (x, y), 0 <= x < w, 0 <= y < h, to a pixel value.  The image library's  *)
(* primitives the code calls (Image.new, transpose, paste, crop) are       *)
(* modelled by what Pillow documents them to do.                           *)
(*                                                                         *)
(* Strings the code lower-cases or formats are sequences of one-character *)
(* strings.                                                                *)
(* An optional argument is the empty set (None) or a singleton.            *)
(***************************************************************************)
EXTENDS Integers, Sequences, FiniteSets, TLC

VARIABLES im, op, args, res, gen

vars == <<im, op, args, res, gen>>

(***************************** bounds **************************************)
\* Largest pixel width and height of an input image.
MaxDim == 2
\* Largest number of edge names passed to strip_pixels.
MaxArgs == 4
\* Largest physical width and height passed to add_dimensioned_bleed.
MaxPhys == 2
\* Largest number of pages main converts.
MaxPages == 11
\* Largest number of filenames pulled from output_filenames directly.
MaxFiles == 12
\* Largest pad_width passed to output_filenames directly.
MaxPad == 3

\* Pixel values; 0 is what Image.new fills a fresh image with.
Colors == {0, 1}

(***************************** strings *************************************)
UpperAlphabet ==
  <<"A","B","C","D","E","F","G","H","I","J","K","L","M",
    "N","O","P","Q","R","S","T","U","V","W","X","Y","Z">>
LowerAlphabet ==
  <<"a","b","c","d","e","f","g","h","i","j","k","l","m",
    "n","o","p","q","r","s","t","u","v","w","x","y","z">>

LowerChar(c) ==
  IF \E i \in 1..Len(UpperAlphabet) : UpperAlphabet[i] = c
    THEN LowerAlphabet[CHOOSE i \in 1..Len(UpperAlphabet) : UpperAlphabet[i] = c]
    ELSE c

\* str.lower()
Lower(s) == [i \in 1..Len(s) |-> LowerChar(s[i])]

top == <<"t","o","p">>
bottom == <<"b","o","t","t","o","m">>
left == <<"l","e","f","t">>
right == <<"r","i","g","h","t">>
smaller == <<"s","m","a","l","l","e","r">>
larger == <<"l","a","r","g","e","r">>

(***************************** optional arguments **************************)
None == {}
Some(x) == {x}
Val(o) == CHOOSE x \in o : TRUE

(***************************** results *************************************)
NoIm == [w |-> 0, h |-> 0, px |-> <<>>]
NoErr == [tmpl |-> "", name |-> "", val |-> 0, target |-> 0]

Ok(b) == [kind |-> "ok", im |-> b, err |-> NoErr]
Raise(kind, tmpl, name, val, target) ==
  [kind |-> kind, im |-> NoIm,
   err |-> [tmpl |-> tmpl, name |-> name, val |-> val, target |-> target]]
NoResult == [kind |-> "none", im |-> NoIm, err |-> NoErr]

(***************************** Pillow primitives ***************************)
Positions(w, h) == (0..(w - 1)) \X (0..(h - 1))

\* Image.new(mode, size): every pixel 0.
New(w, h) == [w |-> w, h |-> h, px |-> [p \in Positions(w, h) |-> 0]]

\* Image.transpose(method)
Transpose(i, method) ==
  CASE method = "FLIP_LEFT_RIGHT" ->
         [w |-> i.w, h |-> i.h,
          px |-> [p \in Positions(i.w, i.h) |-> i.px[<<i.w - 1 - p[1], p[2]>>]]]
    [] method = "ROTATE_90" ->
         [w |-> i.h, h |-> i.w,
          px |-> [p \in Positions(i.h, i.w) |-> i.px[<<i.w - 1 - p[2], p[1]>>]]]
    [] method = "ROTATE_180" ->
         [w |-> i.w, h |-> i.h,
          px |-> [p \in Positions(i.w, i.h) |->
                    i.px[<<i.w - 1 - p[1], i.h - 1 - p[2]>>]]]
    [] method = "ROTATE_270" ->
         [w |-> i.h, h |-> i.w,
          px |-> [p \in Positions(i.h, i.w) |-> i.px[<<p[2], i.h - 1 - p[1]>>]]]

\* dst.paste(src, box=(x0, y0)): src overwrites dst from (x0, y0), clipped.
Paste(dst, src, x0, y0) ==
  [w |-> dst.w, h |-> dst.h,
   px |-> [p \in Positions(dst.w, dst.h) |->
             IF /\ p[1] >= x0 /\ p[1] < x0 + src.w
                /\ p[2] >= y0 /\ p[2] < y0 + src.h
               THEN src.px[<<p[1] - x0, p[2] - y0>>]
               ELSE dst.px[p]]]

\* The pixels of im.crop(box): box = (left, upper, right, lower); what lies
\* outside the source is 0.
CropPixels(i, box) ==
  [w |-> box[3] - box[1], h |-> box[4] - box[2],
   px |-> [p \in Positions(box[3] - box[1], box[4] - box[2]) |->
             IF <<box[1] + p[1], box[2] + p[2]>> \in Positions(i.w, i.h)
               THEN i.px[<<box[1] + p[1], box[2] + p[2]>>]
               ELSE 0]]

\* im.crop(box): Pillow rejects a box whose right is less than its left, or
\* whose lower is less than its upper, with ValueError.
Crop(i, box) ==
  IF box[3] < box[1]
    THEN Raise("ValueError", "Coordinate 'right' is less than 'left'", "", 0, 0)
  ELSE IF box[4] < box[2]
    THEN Raise("ValueError", "Coordinate 'lower' is less than 'upper'", "", 0, 0)
  ELSE Ok(CropPixels(i, box))

(***************************** _mirror_right *******************************)
\* Mutant: the second paste uses the image itself, not its mirror image.
MirrorRightNoFlip(i) ==
  LET base_w == i.w
      base_h == i.h
      result_im == New(2 * base_w, base_h)
      pasted == Paste(result_im, i, 0, 0)
  IN  Paste(pasted, i, base_w, 0)

MirrorRight(i) ==
  LET base_w == i.w
      base_h == i.h
      mirrored_im == Transpose(i, "FLIP_LEFT_RIGHT")
      result_im == New(2 * base_w, base_h)
      pasted == Paste(result_im, i, 0, 0)
  IN  Paste(pasted, mirrored_im, base_w, 0)

(***************************** mirror_across_edge **************************)
\* Mutant: the rotations of top and bottom exchanged.
TransformsSwapped(edj) ==
  CASE edj = top -> <<"ROTATE_90", "ROTATE_270">>
    [] edj = bottom -> <<"ROTATE_270", "ROTATE_90">>
    [] edj = left -> <<"ROTATE_180", "ROTATE_180">>

Transforms(edj) ==
  CASE edj = top -> <<"ROTATE_270", "ROTATE_90">>
    [] edj = bottom -> <<"ROTATE_90", "ROTATE_270">>
    [] edj = left -> <<"ROTATE_180", "ROTATE_180">>

MirrorAcrossEdge(i, edge) ==
  LET edj == Lower(edge)
  IN  IF edj \in {top, bottom, left}
        THEN LET rot_im == Transpose(i, Transforms(edj)[1])
                 mirrored_im == MirrorRight(rot_im)
             IN  Ok(Transpose(mirrored_im, Transforms(edj)[2]))
      ELSE IF edj = right
        THEN Ok(MirrorRight(i))
      ELSE Raise("ValueError", "Invalid value for 'edge'.", "", 0, 0)

(***************************** frill ***************************************)
\* Mutant: mirrored across the right edge first, then the left.
FrillRightFirst(i) ==
  LET base_w == i.w
      base_h == i.h
      r1 == MirrorAcrossEdge(i, right).im
      r2 == MirrorAcrossEdge(r1, left).im
      r3 == Crop(r2, <<0, 0, 3 * base_w, base_h>>).im
      r4 == MirrorAcrossEdge(r3, top).im
      r5 == MirrorAcrossEdge(r4, bottom).im
  IN  Crop(r5, <<0, 0, 3 * base_w, 3 * base_h>>).im

Frill(i) ==
  LET base_w == i.w
      base_h == i.h
      r1 == MirrorAcrossEdge(i, left).im
      r2 == MirrorAcrossEdge(r1, right).im
      r3 == Crop(r2, <<0, 0, 3 * base_w, base_h>>).im
      r4 == MirrorAcrossEdge(r3, top).im
      r5 == MirrorAcrossEdge(r4, bottom).im
  IN  Crop(r5, <<0, 0, 3 * base_w, 3 * base_h>>).im

(***************************** add_bleed ***********************************)
\* int(a / b) for b > 0: the float quotient truncated toward zero.
TruncDiv(a, b) == IF a >= 0 THEN a \div b ELSE -((-a) \div b)

TooSmallPixel == "{name} ({val}) must be greater than image pixel-{name} ({target})"
TooLargePixel == "{name} ({val}) must be less than 3 times image pixel-{name} ({target})"

\* Mutant: three times the target is rejected too.
CheckOutOfBoundsStrict(val, target, name) ==
  IF val < target
    THEN Raise("ValueError", TooSmallPixel, name, val, target)
  ELSE IF val >= 3 * target
    THEN Raise("ValueError", TooLargePixel, name, val, target)
  ELSE Ok(NoIm)

\* add_bleed's check_out_of_bounds: the error raised, or an ok without image.
CheckOutOfBounds(val, target, name) ==
  IF val < target
    THEN Raise("ValueError", TooSmallPixel, name, val, target)
  ELSE IF val > 3 * target
    THEN Raise("ValueError", TooLargePixel, name, val, target)
  ELSE Ok(NoIm)

\* Mutant: the window starts at the center cell's corner.
CropBoxFromCell(base_w, base_h, border_w, border_h) ==
  <<base_w, base_h, 2 * base_w + 2 * border_w, 2 * base_h + 2 * border_h>>

\* box = (base_w - border_w, base_h - border_h, 2 * base_w + border_w, ...)
CropBox(base_w, base_h, border_w, border_h) ==
  <<base_w - border_w, base_h - border_h,
    2 * base_w + border_w, 2 * base_h + border_h>>

AddBleed(i, width, height) ==
  LET base_w == i.w
      base_h == i.h
      w == IF width = None THEN base_w ELSE Val(width)
      h == IF height = None THEN base_h ELSE Val(height)
      cw == CheckOutOfBounds(w, base_w, "width")
      ch == CheckOutOfBounds(h, base_h, "height")
  IN  IF cw.kind # "ok" THEN cw
      ELSE IF ch.kind # "ok" THEN ch
      ELSE LET frill_im == Frill(i)
               border_w == TruncDiv(w - base_w, 2)
               border_h == TruncDiv(h - base_h, 2)
               box == CropBox(base_w, base_h, border_w, border_h)
           IN  Crop(frill_im, box)

(***************************** add_dimensioned_bleed ***********************)
\* Physical sizes are whole numbers of the unit.  A density is the exact
\* fraction <<pixels, units>>; int(bleed * ppi) is the truncated quotient.
\* For the sizes drawn here the double-precision product bleed * (base / width)
\* truncates to that same integer.
TooSmallPhys == "{val_name} ({val}) must be greater than image {target_name} ({target})"
TooLargePhys == "{val_name} ({val}) must be less than 3 times image {target_name} ({target})"

\* add_dimensioned_bleed's check_out_of_bounds
DimCheckOutOfBounds(val, target, val_name, target_name) ==
  IF val < target
    THEN Raise("ValueError", TooSmallPhys, val_name, val, target)
  ELSE IF val > 3 * target
    THEN Raise("ValueError", TooLargePhys, val_name, val, target)
  ELSE Ok(NoIm)

\* ppi_w > ppi_h, for fractions with positive denominators
FracGreater(a, b) == a[1] * b[2] > b[1] * a[2]

\* int(bleed * ppi)
ToPixels(bleed, ppi) == TruncDiv(bleed * ppi[1], ppi[2])

\* Mutant: "smaller" picks the larger density and "larger" the smaller.
ConvertAndBleedSwapped(i, width, height, bleed_w, bleed_h, cs) ==
  IF width = 0 \/ height = 0
    THEN Raise("ZeroDivisionError", "division by zero", "", 0, 0)
  ELSE LET ppi_w == <<i.w, width>>
           ppi_h == <<i.h, height>>
           ppi_larger == IF FracGreater(ppi_w, ppi_h) THEN ppi_w ELSE ppi_h
           ppi_smaller == IF FracGreater(ppi_w, ppi_h) THEN ppi_h ELSE ppi_w
           ppi == IF cs = smaller THEN ppi_larger ELSE ppi_smaller
           bleed_width_pixels == ToPixels(bleed_w, ppi)
           bleed_height_pixels == ToPixels(bleed_h, ppi)
       IN  AddBleed(i, Some(bleed_width_pixels), Some(bleed_height_pixels))

\* Lines 208-223: the densities, the chosen one, the pixel request and the
\* delegation to add_bleed.  base / 0 raises ZeroDivisionError.
ConvertAndBleed(i, width, height, bleed_w, bleed_h, cs) ==
  IF width = 0 \/ height = 0
    THEN Raise("ZeroDivisionError", "division by zero", "", 0, 0)
  ELSE LET ppi_w == <<i.w, width>>
           ppi_h == <<i.h, height>>
           ppi_larger == IF FracGreater(ppi_w, ppi_h) THEN ppi_w ELSE ppi_h
           ppi_smaller == IF FracGreater(ppi_w, ppi_h) THEN ppi_h ELSE ppi_w
           ppi == IF cs = smaller THEN ppi_smaller ELSE ppi_larger
           bleed_width_pixels == ToPixels(bleed_w, ppi)
           bleed_height_pixels == ToPixels(bleed_h, ppi)
       IN  AddBleed(i, Some(bleed_width_pixels), Some(bleed_height_pixels))

\* Mutant: the densities are computed before the strategy is checked.
ConvertThenCheckStrategy(i, width, height, bleed_w, bleed_h, crop_strategy) ==
  LET cs == Lower(crop_strategy)
      converted == ConvertAndBleed(i, width, height, bleed_w, bleed_h, cs)
  IN  IF converted.kind = "ZeroDivisionError"
        THEN converted
      ELSE IF cs \notin {larger, smaller}
        THEN Raise("ValueError",
                   "crop_strategy must either be 'larger' or 'smaller'", "", 0, 0)
      ELSE converted

\* Lines 204-225: the strategy check, then the conversion.
CheckStrategyAndBleed(i, width, height, bleed_w, bleed_h, crop_strategy) ==
  LET cs == Lower(crop_strategy)
  IN  IF cs \notin {larger, smaller}
        THEN Raise("ValueError",
                   "crop_strategy must either be 'larger' or 'smaller'", "", 0, 0)
        ELSE ConvertAndBleed(i, width, height, bleed_w, bleed_h, cs)

AddDimensionedBleed(i, width, height, bleed_width, bleed_height, crop_strategy) ==
  LET bleed_w == IF bleed_width = None THEN width ELSE Val(bleed_width)
      bleed_h == IF bleed_height = None THEN height ELSE Val(bleed_height)
      cw == DimCheckOutOfBounds(bleed_w, width, "bleed_width", "width")
      ch == DimCheckOutOfBounds(bleed_h, height, "bleed_height", "height")
  IN  IF cw.kind # "ok" THEN cw
      ELSE IF ch.kind # "ok" THEN ch
      ELSE CheckStrategyAndBleed(i, width, height, bleed_w, bleed_h, crop_strategy)

(***************************** strip_pixels ********************************)
LegalValues == {top, bottom, left, right}

\* Mutant: the right and bottom sides are re-measured after the left and
\* top were moved in.
StripBoxRemeasured(base_w, base_h, edjs) ==
  LET l == IF left \in edjs THEN 1 ELSE 0
      t == IF top \in edjs THEN 1 ELSE 0
  IN  <<l, t,
        IF right \in edjs THEN base_w - l - 1 ELSE base_w,
        IF bottom \in edjs THEN base_h - t - 1 ELSE base_h>>

\* Lines 243-262: the crop box, each side moved in by one when named.
StripBox(base_w, base_h, edjs) ==
  <<IF left \in edjs THEN 1 ELSE 0,
    IF top \in edjs THEN 1 ELSE 0,
    IF right \in edjs THEN base_w - 1 ELSE base_w,
    IF bottom \in edjs THEN base_h - 1 ELSE base_h>>

\* a is the tuple of edge names passed after the image.
StripPixels(i, a) ==
  LET edjs == {Lower(a[k]) : k \in 1..Len(a)}
  IN  IF ~(edjs \subseteq LegalValues)
        THEN Raise("ValueError",
                   "Edge must be 'top', 'bottom', 'left', or 'right'.", "", 0, 0)
        ELSE Crop(i, StripBox(i.w, i.h, edjs))

(***************************** output_filenames ****************************)
DigitChars == <<"0","1","2","3","4","5","6","7","8","9">>

\* The decimal digits of n >= 0, as "{:d}" prints them.
RECURSIVE Digits(_)
Digits(n) ==
  IF n < 10 THEN <<DigitChars[n + 1]>>
  ELSE Append(Digits(n \div 10), DigitChars[(n % 10) + 1])

\* "{:0{pad_width}d}": zeros on the left up to pad_width characters.
RECURSIVE ZeroPad(_, _)
ZeroPad(s, pad_width) ==
  IF Len(s) >= pad_width THEN s ELSE ZeroPad(<<"0">> \o s, pad_width)

\* sides = itertools.cycle(("front", "back"))
Sides == <<<<"f","r","o","n","t">>, <<"b","a","c","k">>>>

\* Mutant: the card number is rounded, not truncated.
SlugRounded(file_no, side, pad_width) ==
  LET card_no == TruncDiv(file_no + 1, 2)
  IN  ZeroPad(Digits(file_no), pad_width) \o <<"_","c","a","r","d">>
        \o Digits(card_no) \o <<"_">> \o side

\* slug.format(file_no, card_no=int(file_no / 2), pad_width=..., side=side)
Slug(file_no, side, pad_width) ==
  LET card_no == TruncDiv(file_no, 2)
  IN  ZeroPad(Digits(file_no), pad_width) \o <<"_","c","a","r","d">>
        \o Digits(card_no) \o <<"_">> \o side

\* suffix.lstrip(".")
RECURSIVE LStripDots(_)
LStripDots(s) ==
  IF s # <<>> /\ Head(s) = "." THEN LStripDots(Tail(s)) ELSE s

\* Path.with_suffix accepts a suffix that is a dot and at least one more
\* character, and raises ValueError for "." alone.
ValidSuffix(ext) == Len(ext) > 1 /\ ext[1] = "."

\* The index of the last dot of a file name that starts its suffix (not
\* the first character, not the last), or 0.
SuffixDot(name) ==
  LET dots == {k \in 2..(Len(name) - 1) : name[k] = "."}
  IN  IF dots = {} THEN 0 ELSE CHOOSE k \in dots : \A j \in dots : j <= k

\* Path(parent_dir, filename).with_suffix(ext): the name of the path.
WithSuffix(name, ext) ==
  IF SuffixDot(name) = 0 THEN name \o ext
  ELSE SubSeq(name, 1, SuffixDot(name) - 1) \o ext

\* No generator, and a generator just created: nothing runs before the
\* first filename is asked for.
NoGenerator ==
  [mode |-> "none", status |-> "none", pages |-> 0, suffix |-> <<>>,
   pad_width |-> 0, count |-> 0, cycle |-> 1, out |-> <<>>]
NewGenerator(mode, pages, suffix, pad_width) ==
  [mode |-> mode, status |-> "running", pages |-> pages, suffix |-> suffix,
   pad_width |-> pad_width, count |-> 0, cycle |-> 1, out |-> <<>>]

\* One iteration of the generator's loop: the next of itertools.count(),
\* the next of the cycle, the path yielded (or with_suffix's ValueError).
GenNext(g) ==
  LET file_no == g.count
      side == Sides[g.cycle]
      filename == Slug(file_no, side, g.pad_width)
      ext == <<".">> \o LStripDots(g.suffix)
      advanced == [g EXCEPT !.count = @ + 1,
                            !.cycle = IF @ = Len(Sides) THEN 1 ELSE @ + 1]
  IN  IF ValidSuffix(ext)
        THEN [advanced EXCEPT !.out = Append(@, WithSuffix(filename, ext))]
        ELSE [advanced EXCEPT !.status = "ValueError"]

\* int(math.log10(n)) for n >= 1.
RECURSIVE FloorLog10(_)
FloorLog10(n) == IF n < 10 THEN 0 ELSE 1 + FloorLog10(n \div 10)

\* main's pad_width = int(math.log10(len(imgs))) + 1
PadWidth(pages) == FloorLog10(pages) + 1

PngSuffix == <<".","p","n","g">>

(***************************** inputs **************************************)
Dims == 1..MaxDim

Buffers ==
  UNION {{[w |-> w, h |-> h, px |-> f] : f \in [Positions(w, h) -> Colors]} :
           <<w, h>> \in Dims \X Dims}

EdgeInputs ==
  {top, bottom, left, right,
   <<"T","o","p">>, <<"B","O","T","T","O","M">>, <<"L","E","F","T">>,
   <<"R","i","g","h","t">>, <<"m","i","d","d","l","e">>}

\* Requested pixel sizes for an image side of s pixels: omitted, or any
\* size from 0 to one past the largest accepted.
PixelRequests(s) == {None} \cup {Some(n) : n \in 0..(3 * s + 1)}

\* Edge names passed to strip_pixels, by index.
StripNames == <<top, bottom, left, right, <<"L","e","f","t">>, <<"m","i","d">>>>

\* Tuples of at most MaxArgs edge names.  strip_pixels makes a set of them
\* at once, so each multiset of names is passed in one order.
StripArgs ==
  UNION {{[k \in 1..n |-> StripNames[f[k]]] :
            f \in {g \in [1..n -> 1..Len(StripNames)] :
                     \A k \in 1..(n - 1) : g[k] <= g[k + 1]}} :
           n \in 0..MaxArgs}

\* The uniform test image and an image marked in its top-left corner.
SampleImage(w, h) == [w |-> w, h |-> h, px |-> [p \in Positions(w, h) |-> 1]]
MarkedImage(w, h) ==
  [w |-> w, h |-> h,
   px |-> [p \in Positions(w, h) |-> IF p = <<0, 0>> THEN 1 ELSE 0]]

DimBuffers ==
  UNION {{SampleImage(w, h), MarkedImage(w, h)} : <<w, h>> \in Dims \X Dims}

PhysSizes == 0..MaxPhys
PhysRequests(s) == {None} \cup {Some(n) : n \in 0..(3 * s + 1)}

StrategyInputs ==
  {smaller, larger, <<"L","a","r","g","e","r">>,
   <<"S","M","A","L","L","E","R">>, <<"i","n","v","a","l","i","d">>}

(***************************** the state machine ***************************)
\* One run: an input image, then one call on it.
Init ==
  /\ im \in Buffers
  /\ op = "init"
  /\ args = <<>>
  /\ res = NoResult
  /\ gen = NoGenerator

DoMirrorAcrossEdge ==
  /\ op = "init"
  /\ \E edge \in EdgeInputs :
       /\ op' = "mirror_across_edge"
       /\ args' = [edge |-> edge]
       /\ res' = MirrorAcrossEdge(im, edge)
  /\ UNCHANGED <<im, gen>>

DoFrill ==
  /\ op = "init"
  /\ op' = "frill"
  /\ args' = <<>>
  /\ res' = Ok(Frill(im))
  /\ UNCHANGED <<im, gen>>

DoAddBleed ==
  /\ op = "init"
  /\ \E width \in PixelRequests(im.w), height \in PixelRequests(im.h) :
       /\ op' = "add_bleed"
       /\ args' = [width |-> width, height |-> height]
       /\ res' = AddBleed(im, width, height)
  /\ UNCHANGED <<im, gen>>

DoStripPixels ==
  /\ op = "init"
  /\ \E a \in StripArgs :
       /\ op' = "strip_pixels"
       /\ args' = [edges |-> a]
       /\ res' = StripPixels(im, a)
  /\ UNCHANGED <<im, gen>>

Next ==
  \/ DoMirrorAcrossEdge
  \/ DoFrill
  \/ DoAddBleed

Spec == Init /\ [][Next]_vars

\* strip_pixels, on the same images.
NextStrip == DoStripPixels

SpecStrip == Init /\ [][NextStrip]_vars

\* add_dimensioned_bleed, on the test images.
InitDim ==
  /\ im \in DimBuffers
  /\ op = "init"
  /\ args = <<>>
  /\ res = NoResult
  /\ gen = NoGenerator

DoAddDimensionedBleed ==
  /\ op = "init"
  /\ \E width \in PhysSizes, height \in PhysSizes, cs \in StrategyInputs :
       \E bleed_width \in PhysRequests(width), bleed_height \in PhysRequests(height) :
         /\ op' = "add_dimensioned_bleed"
         /\ args' = [width |-> width, height |-> height,
                     bleed_width |-> bleed_width, bleed_height |-> bleed_height,
                     crop_strategy |-> cs]
         /\ res' = AddDimensionedBleed(im, width, height, bleed_width,
                                       bleed_height, cs)
  /\ UNCHANGED <<im, gen>>

NextDim == DoAddDimensionedBleed

SpecDim == InitDim /\ [][NextDim]_vars

\* output_filenames pulled directly, and main's loop over the pages.
SuffixInputs == {PngSuffix, <<"p","n","g">>, <<".",".","p","n","g">>, <<>>}

InitNames ==
  /\ im = NoIm
  /\ op = "init"
  /\ args = <<>>
  /\ res = NoResult
  /\ \/ \E suffix \in SuffixInputs, pad_width \in 0..MaxPad :
          gen = NewGenerator("generator", 0, suffix, pad_width)
     \/ \E pages \in 0..MaxPages :
          gen = [NoGenerator EXCEPT !.mode = "main", !.status = "start",
                                    !.pages = pages]

\* next(output_filenames(...))
NextFilename ==
  /\ gen.mode = "generator"
  /\ gen.status = "running"
  /\ gen.count < MaxFiles
  /\ gen' = GenNext(gen)
  /\ UNCHANGED <<im, op, args, res>>

\* main, lines 362-364: math.log10(0) raises ValueError.
MainStart ==
  /\ gen.mode = "main"
  /\ gen.status = "start"
  /\ gen' = IF gen.pages = 0
              THEN [gen EXCEPT !.status = "ValueError"]
              ELSE NewGenerator("main", gen.pages, PngSuffix, PadWidth(gen.pages))
  /\ UNCHANGED <<im, op, args, res>>

\* main, lines 366-370: one page and its filename; strip_pixels,
\* add_dimensioned_bleed or save may raise, which ends the run.
MainPage ==
  /\ gen.mode = "main"
  /\ gen.status = "running"
  /\ Len(gen.out) < gen.pages
  /\ \E raised \in BOOLEAN :
       gen' = IF raised /\ GenNext(gen).status = "running"
                THEN [GenNext(gen) EXCEPT !.status = "aborted"]
                ELSE GenNext(gen)
  /\ UNCHANGED <<im, op, args, res>>

\* main: zip stops when the pages are exhausted, before another filename.
MainEnd ==
  /\ gen.mode = "main"
  /\ gen.status = "running"
  /\ Len(gen.out) = gen.pages
  /\ gen' = [gen EXCEPT !.status = "done"]
  /\ UNCHANGED <<im, op, args, res>>

NextNames ==
  \/ NextFilename
  \/ MainStart
  \/ MainPage
  \/ MainEnd

SpecNames == InitNames /\ [][NextNames]_vars


(***************************** direct constructions ***********************)
\* The image flipped left to right, and top to bottom.
HFlip(i) ==
  [w |-> i.w, h |-> i.h,
   px |-> [p \in Positions(i.w, i.h) |-> i.px[<<i.w - 1 - p[1], p[2]>>]]]
VFlip(i) ==
  [w |-> i.w, h |-> i.h,
   px |-> [p \in Positions(i.w, i.h) |-> i.px[<<p[1], i.h - 1 - p[2]>>]]]

\* a to the left of b, and a above b (equal heights, equal widths).
Beside(a, b) ==
  [w |-> a.w + b.w, h |-> a.h,
   px |-> [p \in Positions(a.w + b.w, a.h) |->
             IF p[1] < a.w THEN a.px[p] ELSE b.px[<<p[1] - a.w, p[2]>>]]]
Above(a, b) ==
  [w |-> a.w, h |-> a.h + b.h,
   px |-> [p \in Positions(a.w, a.h + b.h) |->
             IF p[2] < a.h THEN a.px[p] ELSE b.px[<<p[1], p[2] - a.h>>]]]

DirectMirror(i, edj) ==
  CASE edj = right -> Beside(i, HFlip(i))
    [] edj = left -> Beside(HFlip(i), i)
    [] edj = top -> Above(VFlip(i), i)
    [] edj = bottom -> Above(i, VFlip(i))

\* The pixel of image i at (x, y), when it has one.
HasPixel(i, x, y) == <<x, y>> \in DOMAIN i.px
SamePixel(i, x1, y1, x2, y2) ==
  /\ HasPixel(i, x1, y1)
  /\ HasPixel(i, x2, y2)
  /\ i.px[<<x1, y1>>] = i.px[<<x2, y2>>]

(***************************** add_bleed: the call's reading ***************)
\* The pixel size add_bleed was asked for (an omitted side is the source's).
AskedW == IF args.width = None THEN im.w ELSE Val(args.width)
AskedH == IF args.height = None THEN im.h ELSE Val(args.height)
InRange == /\ im.w <= AskedW /\ AskedW <= 3 * im.w
           /\ im.h <= AskedH /\ AskedH <= 3 * im.h

(***************************** claims **************************************)
\* C1: for every in-range request (w, h), add_bleed returns a buffer of
\* size exactly (w, h), whatever the parity of w - sw and h - sh.
C1_ExactSize ==
  (op = "add_bleed" /\ InRange) =>
    /\ res.kind = "ok"
    /\ res.im.w = AskedW
    /\ res.im.h = AskedH

\* C2: for every in-range request the output of add_bleed holds the source
\* unchanged at offset (floor((w - sw)/2), floor((h - sh)/2)); a request
\* omitted or equal to the source size returns the source pixel for pixel.
C2_CenteredSource ==
  (op = "add_bleed" /\ InRange) =>
    LET bw == (AskedW - im.w) \div 2
        bh == (AskedH - im.h) \div 2
    IN  /\ res.kind = "ok"
        /\ \A p \in Positions(im.w, im.h) :
             /\ HasPixel(res.im, bw + p[1], bh + p[2])
             /\ res.im.px[<<bw + p[1], bh + p[2]>>] = im.px[p]
        /\ (AskedW = im.w /\ AskedH = im.h) => res.im = im

C2_Witness ==
  /\ op = "add_bleed"
  /\ im.w = 2 /\ im.h = 2
  /\ im.px[<<0, 0>>] # im.px[<<1, 0>>]
  /\ im.px[<<0, 0>>] # im.px[<<0, 1>>]
  /\ args.width = Some(4) /\ args.height = Some(6)
  /\ res.kind = "ok"

\* C3: add_bleed raises ValueError, returning no buffer, exactly when the
\* request is below the source size or above three times it on some axis;
\* the bounds themselves are accepted; the error names the axis, width
\* before height, with one message for too small and another for too large.
C3_RangeCheck ==
  op = "add_bleed" =>
    /\ res.kind = (IF InRange THEN "ok" ELSE "ValueError")
    /\ ~InRange => res.im = NoIm
    /\ AskedW < im.w =>
         res.err = [tmpl |-> TooSmallPixel, name |-> "width",
                    val |-> AskedW, target |-> im.w]
    /\ AskedW > 3 * im.w =>
         res.err = [tmpl |-> TooLargePixel, name |-> "width",
                    val |-> AskedW, target |-> im.w]
    /\ (im.w <= AskedW /\ AskedW <= 3 * im.w /\ AskedH < im.h) =>
         res.err = [tmpl |-> TooSmallPixel, name |-> "height",
                    val |-> AskedH, target |-> im.h]
    /\ (im.w <= AskedW /\ AskedW <= 3 * im.w /\ AskedH > 3 * im.h) =>
         res.err = [tmpl |-> TooLargePixel, name |-> "height",
                    val |-> AskedH, target |-> im.h]
    /\ TooSmallPixel # TooLargePixel

C3_Witness ==
  /\ op = "add_bleed"
  /\ im.w = 2 /\ im.h = 1
  /\ args.width = Some(7) /\ args.height = Some(0)
  /\ res.kind = "ValueError"
  /\ res.err.name = "width"

\* C4: frill(B) has size exactly (3W, 3H) and its center cell, the W x H
\* region at (W, H), equals B pixel for pixel.
C4_FrillCenter ==
  op = "frill" =>
    /\ res.kind = "ok"
    /\ res.im.w = 3 * im.w
    /\ res.im.h = 3 * im.h
    /\ DOMAIN res.im.px = Positions(3 * im.w, 3 * im.h)
    /\ \A p \in Positions(im.w, im.h) :
         res.im.px[<<im.w + p[1], im.h + p[2]>>] = im.px[p]

C4_Witness ==
  /\ op = "frill"
  /\ im.w = 2 /\ im.h = 2
  /\ im.px[<<0, 0>>] # im.px[<<1, 0>>]
  /\ im.px[<<0, 0>>] # im.px[<<0, 1>>]
  /\ res.im.w = 6

\* C5: every interior seam of F = frill(B) is mirror-continuous: across
\* x = W and x = 2W, and across y = H and y = 2H, the pixels at equal
\* offsets k on either side of the seam are equal.
C5_SeamsMirror ==
  op = "frill" =>
    LET F == res.im
        W == im.w
        H == im.h
    IN  /\ \A k \in 0..(W - 1), y \in 0..(3 * H - 1) :
             /\ SamePixel(F, W - 1 - k, y, W + k, y)
             /\ SamePixel(F, 2 * W - 1 - k, y, 2 * W + k, y)
        /\ \A k \in 0..(H - 1), x \in 0..(3 * W - 1) :
             /\ SamePixel(F, x, H - 1 - k, x, H + k)
             /\ SamePixel(F, x, 2 * H - 1 - k, x, 2 * H + k)

C5_Witness ==
  /\ op = "frill"
  /\ im.w = 2 /\ im.h = 2
  /\ im.px[<<0, 0>>] # im.px[<<1, 0>>]
  /\ im.px[<<1, 0>>] # im.px[<<1, 1>>]
  /\ res.im.h = 6

\* C6: for every edge, the rotate / mirror-right / rotate-back result of
\* mirror_across_edge equals the direct construction: right [B | hflip B],
\* left [hflip B | B], top vflip B above B, bottom B above vflip B.
C6_MirrorIsDirect ==
  (op = "mirror_across_edge" /\ Lower(args.edge) \in LegalValues) =>
    /\ res = Ok(DirectMirror(im, Lower(args.edge)))
    /\ res.im.w = (IF Lower(args.edge) \in {left, right} THEN 2 * im.w ELSE im.w)
    /\ res.im.h = (IF Lower(args.edge) \in {top, bottom} THEN 2 * im.h ELSE im.h)

C6_Witness ==
  /\ op = "mirror_across_edge"
  /\ args.edge = <<"T","o","p">>
  /\ im.w = 2 /\ im.h = 2
  /\ im # VFlip(im)
  /\ im # HFlip(im)
  /\ res.kind = "ok"
  /\ res.im.h = 4

(***************************** add_dimensioned_bleed: the call's reading ***)
BleedW == IF args.bleed_width = None THEN args.width ELSE Val(args.bleed_width)
BleedH == IF args.bleed_height = None THEN args.height ELSE Val(args.bleed_height)
ValidStrategy == Lower(args.crop_strategy) \in {smaller, larger}

\* C7: with bleed_width and bleed_height omitted, positive width and
\* height and either strategy, add_dimensioned_bleed returns a buffer
\* pixel-identical to the source, also when the two densities differ.
C7_NoBleedIsIdentity ==
  (/\ op = "add_dimensioned_bleed"
   /\ args.width > 0 /\ args.height > 0
   /\ args.bleed_width = None /\ args.bleed_height = None
   /\ ValidStrategy) =>
    res = Ok(im)

\* C8: with strategy "larger", a returned buffer covers the requested
\* physical bleed on both axes: its pixel width is at least
\* trunc(bleed_width * ppi_w) and its height at least
\* trunc(bleed_height * ppi_h).
C8_LargerCovers ==
  (/\ op = "add_dimensioned_bleed"
   /\ Lower(args.crop_strategy) = larger
   /\ res.kind = "ok") =>
    /\ res.im.w >= (BleedW * im.w) \div args.width
    /\ res.im.h >= (BleedH * im.h) \div args.height

\* C9: a crop_strategy that is neither "smaller" nor "larger" (compared
\* case-insensitively) makes add_dimensioned_bleed raise ValueError and
\* return no buffer, whatever the other arguments; no other kind of error
\* (the division by a zero width or height) comes first.
C9_BadStrategyIsValueError ==
  (op = "add_dimensioned_bleed" /\ ~ValidStrategy) =>
    /\ res.kind = "ValueError"
    /\ res.im = NoIm

C9_Witness ==
  /\ op = "add_dimensioned_bleed"
  /\ ~ValidStrategy
  /\ args.width = 0
  /\ args.bleed_width = None
  /\ args.bleed_height = None
  /\ res.kind = "ValueError"
  /\ res.err.tmpl = "crop_strategy must either be 'larger' or 'smaller'"

(***************************** strip_pixels: the call's reading ************)
StripSet == {Lower(args.edges[k]) : k \in 1..Len(args.edges)}
Named(S, e) == IF e \in S THEN 1 ELSE 0

\* Columns l .. W - r - 1 and rows t .. H - b - 1 of image i.
StripExpected(i, l, t, r, b) ==
  [w |-> i.w - l - r, h |-> i.h - t - b,
   px |-> [p \in Positions(i.w - l - r, i.h - t - b) |->
             i.px[<<p[1] + l, p[2] + t>>]]]

\* C10 as stated: for every W x H buffer and every set of edge names,
\* strip_pixels returns the crop to (l, t, W - r, H - b), of size
\* (W - l - r, H - t - b); the empty set returns the buffer; a name
\* outside the four raises ValueError.
C10_Original ==
  op = "strip_pixels" =>
    LET S == StripSet
        l == Named(S, left)
        t == Named(S, top)
        r == Named(S, right)
        b == Named(S, bottom)
    IN  IF S \subseteq LegalValues
          THEN /\ res.kind = "ok"
               /\ res.im.w = im.w - l - r
               /\ res.im.h = im.h - t - b
               /\ res.im = StripExpected(im, l, t, r, b)
               /\ S = {} => res.im = im
          ELSE res.kind = "ValueError" /\ res.im = NoIm

\* C10 as amended: the same, for the calls whose box is not inverted
\* (W >= l + r and H >= t + b); a buffer one pixel wide stripped of both
\* left and right, or one pixel high stripped of both top and bottom, has
\* no such crop and the call raises ValueError.
C10_StripIsCrop ==
  op = "strip_pixels" =>
    LET S == StripSet
        l == Named(S, left)
        t == Named(S, top)
        r == Named(S, right)
        b == Named(S, bottom)
    IN  IF ~(S \subseteq LegalValues)
          THEN res.kind = "ValueError" /\ res.im = NoIm
        ELSE IF im.w >= l + r /\ im.h >= t + b
          THEN /\ res = Ok(StripExpected(im, l, t, r, b))
               /\ res.im.w = im.w - l - r
               /\ res.im.h = im.h - t - b
               /\ S = {} => res.im = im
        ELSE res.kind = "ValueError" /\ res.im = NoIm

C10_Witness ==
  /\ op = "strip_pixels"
  /\ StripSet = LegalValues
  /\ Len(args.edges) = 4
  /\ im.w = 2 /\ im.h = 2
  /\ res.kind = "ok"
  /\ res.im.w = 0 /\ res.im.h = 0

(***************************** add_dimensioned_bleed: the delegation *******)
\* The call passes add_dimensioned_bleed's own checks.
PassesOwnChecks ==
  /\ args.width > 0 /\ args.height > 0
  /\ args.width <= BleedW /\ BleedW <= 3 * args.width
  /\ args.height <= BleedH /\ BleedH <= 3 * args.height
  /\ ValidStrategy

\* min and max of two fractions with positive denominators.
MinFrac(a, b) == IF a[1] * b[2] <= b[1] * a[2] THEN a ELSE b
MaxFrac(a, b) == IF a[1] * b[2] >= b[1] * a[2] THEN a ELSE b

\* trunc(x * d) for a fraction d.
TruncProduct(x, d) == (x * d[1]) \div d[2]

\* C11: for positive width and height, in-range bleed sizes and a valid
\* strategy, add_dimensioned_bleed returns what add_bleed returns for the
\* pixel request (trunc(bleed_width * d), trunc(bleed_height * d)), with
\* d = min(sw/width, sh/height) for "smaller" and the max for "larger";
\* with equal densities the result does not depend on the strategy.
C11_DelegatesWithOneDensity ==
  (op = "add_dimensioned_bleed" /\ PassesOwnChecks) =>
    LET dw == <<im.w, args.width>>
        dh == <<im.h, args.height>>
        d == IF Lower(args.crop_strategy) = smaller
               THEN MinFrac(dw, dh) ELSE MaxFrac(dw, dh)
    IN  /\ res = AddBleed(im, Some(TruncProduct(BleedW, d)),
                              Some(TruncProduct(BleedH, d)))
        /\ (im.w * args.height = im.h * args.width) =>
             res = AddBleed(im, Some(TruncProduct(BleedW, dw)),
                                Some(TruncProduct(BleedH, dh)))

C11_Witness ==
  /\ op = "add_dimensioned_bleed"
  /\ PassesOwnChecks
  /\ im.w = 1 /\ im.h = 2
  /\ args.width = 1 /\ args.height = 1
  /\ args.crop_strategy = <<"L","a","r","g","e","r">>
  /\ args.bleed_width = Some(1) /\ args.bleed_height = Some(2)
  /\ res.kind = "ok"
  /\ res.im.h = 4

\* The scenario of the tests, at the scale of the bounds: a square image
\* with width = height = 1 and a 2 x 2 bleed doubles on both axes.
C11_ScenarioWitness ==
  /\ op = "add_dimensioned_bleed"
  /\ im.w = 2 /\ im.h = 2
  /\ args.width = 1 /\ args.height = 1
  /\ args.bleed_width = Some(2) /\ args.bleed_height = Some(2)
  /\ res.kind = "ok"
  /\ res.im.w = 4 /\ res.im.h = 4

\* C13: every call of add_dimensioned_bleed that passes its own checks
\* returns a buffer: add_bleed's pixel range check never rejects the
\* converted request.
C13_OwnChecksSuffice ==
  (op = "add_dimensioned_bleed" /\ PassesOwnChecks) => res.kind = "ok"

(***************************** output_filenames: the pure function *********)
Zeros(k) == [j \in 1..k |-> "0"]

\* <i padded to pad_width>_card<floor(i/2)>_<front|back>.<suffix>
FilenameFor(i, pad_width, suffix) ==
  LET digits == Digits(i)
      padding == IF pad_width > Len(digits) THEN pad_width - Len(digits) ELSE 0
      side == IF i % 2 = 0 THEN <<"f","r","o","n","t">> ELSE <<"b","a","c","k">>
  IN  Zeros(padding) \o digits \o <<"_","c","a","r","d">> \o Digits(i \div 2)
        \o <<"_">> \o side \o <<".">> \o LStripDots(suffix)

\* C12: the i-th path output_filenames yields (from 0) is the pure
\* function of i: i zero-padded to pad_width, _card floor(i/2), front for
\* even i and back for odd i, and the suffix; so the sides alternate from
\* front and each card number serves two consecutive files; main passes
\* the number of decimal digits of the page count as pad_width.
C12_GeneratorIsPure ==
  /\ \A i \in 0..(Len(gen.out) - 1) :
       gen.out[i + 1] = FilenameFor(i, gen.pad_width, gen.suffix)
  /\ gen.status = "running" =>
       /\ gen.count = Len(gen.out)
       /\ Sides[gen.cycle] = Sides[IF Len(gen.out) % 2 = 0 THEN 1 ELSE 2]
  /\ (gen.mode = "main" /\ gen.status \in {"running", "aborted", "done"}) =>
       /\ gen.pad_width = Len(Digits(gen.pages))
       /\ gen.suffix = PngSuffix

C12_Witness ==
  /\ gen.mode = "main"
  /\ gen.status = "done"
  /\ gen.pages = 11
  /\ Len(gen.out) = 11
  /\ gen.out[1] = <<"0","0","_","c","a","r","d","0","_","f","r","o","n","t",
                    ".","p","n","g">>
  /\ gen.out[2] = <<"0","1","_","c","a","r","d","0","_","b","a","c","k",
                    ".","p","n","g">>
  /\ gen.out[11] = <<"1","0","_","c","a","r","d","5","_","f","r","o","n","t",
                     ".","p","n","g">>

=============================================================================
